---- MODULE Spec2Model ----
(***************************************************************************)
(* Model of app.py: a Streamlit page that ingests PDF files, chunks their  *)
(* text, indexes the chunks and answers questions over the index with a    *)
(* ConversationalRetrievalChain that carries a ConversationBufferMemory.   *)
(*                                                                         *)
(* Every user event (question submitted, files changed, button clicked)    *)
(* re-runs main() from the top against the persisted st.session_state and  *)
(* the persisted widget values; one action of the model is one such run.   *)
(*                                                                         *)
(* Text is kept run-length encoded: a string is a sequence of runs         *)
(* [ch, n], n copies of the character class ch ("x" a non-blank character, *)
(* " " a blank, "\n" the separator).  Length, splitting on the separator,  *)
(* joining and stripping are computed on the runs exactly as on the        *)
(* characters they stand for.                                              *)
(***************************************************************************)
EXTENDS Integers, Sequences, FiniteSets, TLC

VARIABLES
    conversation,        \* st.session_state.conversation
    chat_history,        \* st.session_state.chat_history
    question,            \* value held by the text_input widget
    docs,                \* value held by the file_uploader widget
    button,              \* st.button("Process") of the last run
    notices,             \* st.warning / st.success emitted by the last run
    rendered,            \* st.write of chat messages in the last run
    llm_calls,           \* hosted chat model calls made by the last run
    retrievals,          \* retriever queries made by the last run
    invoked,             \* pipeline functions called by the last run
    error,               \* exception that ended the last run, or "None"
    asked,               \* outcome of the question block of the last run
    turns_since_process, \* history: turns answered by the chain now stored
    raw_text,            \* get_chunks: argument
    text_chunks,         \* get_chunks: result
    split_done           \* get_chunks: has returned

vars == << conversation, chat_history, question, docs, button, notices,
           rendered, llm_calls, retrievals, invoked, error, asked,
           turns_since_process, raw_text, text_chunks, split_done >>

sessionVars == << conversation, chat_history, question, docs, button, notices,
                  rendered, llm_calls, retrievals, invoked, error, asked,
                  turns_since_process >>

chunkVars == << raw_text, text_chunks, split_done >>

----------------------------------------------------------------------------
(* Bounds *)

MaxTurns == 2
MaxDocs == 1
MaxRuns == 5

----------------------------------------------------------------------------
(* Strings as runs of characters *)

X(n) == [ch |-> "x", n |-> n]
B(n) == [ch |-> " ", n |-> n]
NL == [ch |-> "\n", n |-> 1]

RECURSIVE len(_)
len(s) == IF s = << >> THEN 0 ELSE Head(s).n + len(Tail(s))

IsSpace(r) == r.ch \in {" ", "\n"}

RECURSIVE lstrip(_)
lstrip(s) ==
    IF s = << >> THEN << >>
    ELSE IF IsSpace(Head(s)) THEN lstrip(Tail(s)) ELSE s

RECURSIVE rstrip(_)
rstrip(s) ==
    IF s = << >> THEN << >>
    ELSE IF IsSpace(s[Len(s)]) THEN rstrip(SubSeq(s, 1, Len(s) - 1)) ELSE s

strip(s) == rstrip(lstrip(s))

RECURSIVE re_split(_, _)
re_split(s, cur) ==
    IF s = << >> THEN << cur >>
    ELSE IF Head(s).ch = "\n"
         THEN << cur >> \o re_split(Tail(s), << >>)
         ELSE re_split(Tail(s), Append(cur, Head(s)))

split_text_with_regex(text) ==
    SelectSeq(re_split(text, << >>), LAMBDA s : s # << >>)

RECURSIVE join(_, _)
join(ds, separator) ==
    IF ds = << >> THEN << >>
    ELSE IF Len(ds) = 1 THEN ds[1]
    ELSE ds[1] \o separator \o join(Tail(ds), separator)

----------------------------------------------------------------------------
(* get_chunks: CharacterTextSplitter(separator, chunk_size, chunk_overlap) *)

separator == << NL >>
chunk_size == 1000
chunk_overlap == 200

\* _join_docs: the joined text stripped; << >> stands for its None.
join_docs(ds) == strip(join(ds, separator))

sep_len(current_doc, k) == IF Len(current_doc) > k THEN len(separator) ELSE 0

\* The popping loop of _merge_splits that opens the next chunk, dropping only
\* down to the overlap and never making room for the coming split.
RECURSIVE pop_overlap_only(_, _, _)
pop_overlap_only(current_doc, total, l) ==
    IF total > chunk_overlap
    THEN pop_overlap_only(Tail(current_doc),
                          total - (len(current_doc[1]) + sep_len(current_doc, 1)),
                          l)
    ELSE [current_doc |-> current_doc, total |-> total]

\* The popping loop of _merge_splits that opens the next chunk.
RECURSIVE pop(_, _, _)
pop(current_doc, total, l) ==
    IF \/ total > chunk_overlap
       \/ /\ total + l + sep_len(current_doc, 0) > chunk_size
          /\ total > 0
    THEN pop(Tail(current_doc),
             total - (len(current_doc[1]) + sep_len(current_doc, 1)),
             l)
    ELSE [current_doc |-> current_doc, total |-> total]

RECURSIVE merge_splits(_, _, _, _)
merge_splits(splits, out, current_doc, total) ==
    IF splits = << >>
    THEN LET doc == join_docs(current_doc)
         IN  IF doc # << >> THEN Append(out, doc) ELSE out
    ELSE
      LET d == Head(splits)
          l == len(d)
          overflow == total + l + sep_len(current_doc, 0) > chunk_size
          closing == overflow /\ Len(current_doc) > 0
          doc == join_docs(current_doc)
          out2 == IF closing /\ doc # << >> THEN Append(out, doc) ELSE out
          kept == IF closing THEN pop(current_doc, total, l)
                  ELSE [current_doc |-> current_doc, total |-> total]
          cur2 == Append(kept.current_doc, d)
      IN  merge_splits(Tail(splits), out2, cur2,
                       kept.total + l + sep_len(cur2, 1))

get_chunks(text) ==
    merge_splits(split_text_with_regex(text), << >>, << >>, 0)

----------------------------------------------------------------------------
(* Inputs of get_chunks *)

Runs == { NL, B(3), X(150), X(450), X(900), X(1001) }

RECURSIVE SeqsUpTo(_, _)
SeqsUpTo(S, k) ==
    IF k = 0 THEN { << >> }
    ELSE LET shorter == SeqsUpTo(S, k - 1)
         IN  shorter \cup { Append(s, e) : s \in shorter, e \in S }

Texts == SeqsUpTo(Runs, MaxRuns)

\* get_chunks returns.
Split ==
    /\ ~split_done
    /\ text_chunks' = get_chunks(raw_text)
    /\ split_done' = TRUE
    /\ UNCHANGED raw_text
    /\ UNCHANGED sessionVars

----------------------------------------------------------------------------
(* Session state and widgets *)

None == [none |-> TRUE]

WARN_PROCESS_FIRST ==
    [kind |-> "warning", text |-> "Please upload and process your documents first."]
WARN_NO_DOCS ==
    [kind |-> "warning", text |-> "Please upload at least one PDF document."]
SUCCESS ==
    [kind |-> "success", text |-> "Documents processed successfully!"]

HumanMessage(c) == [type |-> "human", content |-> c]
AIMessage(c) == [type |-> "ai", content |-> c]

Questions == { "q1", "q2" }
Answers == { "a1", "a2" }

\* Uploaded files: a stream that is not a PDF, a scan without extractable
\* text, and a three-page report whose text needs several chunks.
NotAPdf == [valid |-> FALSE, pages |-> << >>]
Scan == [valid |-> TRUE, pages |-> << << >> >>]
Report ==
    [valid |-> TRUE,
     pages |-> << << X(5), B(1), X(6), NL >>,
                  << X(900), NL, X(150), NL >>,
                  << X(900) >> >>]

Files == { NotAPdf, Scan, Report }
DocLists == SeqsUpTo(Files, MaxDocs)

IsPrefix(s, t) == Len(s) <= Len(t) /\ SubSeq(t, 1, Len(s)) = s

----------------------------------------------------------------------------
(* get_pdf_text *)

RECURSIVE extract_pages(_)
extract_pages(pages) ==
    IF pages = << >> THEN << >> ELSE Head(pages) \o extract_pages(Tail(pages))

\* text accumulated over the files in upload order; PdfReader raises on the
\* first stream that is not a PDF.
RECURSIVE get_pdf_text(_)
get_pdf_text(ds) ==
    IF ds = << >> THEN [raised |-> FALSE, text |-> << >>]
    ELSE IF ~Head(ds).valid THEN [raised |-> TRUE, text |-> << >>]
    ELSE LET rest == get_pdf_text(Tail(ds))
         IN  [raised |-> rest.raised,
              text |-> extract_pages(Head(ds).pages) \o rest.text]

----------------------------------------------------------------------------
(* get_vectorstore *)

\* get_vectorstore swallowing the embedder's failure and indexing the texts
\* embedded so far.
get_vectorstore_partial(chunks, embed_at) ==
    IF embed_at > 0
    THEN [raised |-> "None", index |-> SubSeq(chunks, 1, embed_at - 1)]
    ELSE IF chunks = << >> THEN [raised |-> "EmptyCorpusError", index |-> << >>]
    ELSE [raised |-> "None", index |-> chunks]

\* FAISS.from_texts embeds the whole batch, then builds the index; the index
\* has one entry per text.  embed_at = 0: the embedder works; embed_at = k:
\* it fails on the k-th text (on loading the model when there is no text).
get_vectorstore(chunks, embed_at) ==
    IF embed_at > 0 THEN [raised |-> "EmbeddingError", index |-> << >>]
    ELSE IF chunks = << >> THEN [raised |-> "EmptyCorpusError", index |-> << >>]
    ELSE [raised |-> "None", index |-> chunks]

----------------------------------------------------------------------------
(* get_conversationchain and the chain's call *)

get_conversationchain(vectorstore) ==
    [index |-> vectorstore, memory |-> << >>]

\* The chain call with one of its steps changed: "partial" saves the question
\* before the answer is generated, "window" keeps only the last turn in the
\* memory, "unsaved" never saves the turn, "always_rewrite" rewrites the
\* question over an empty history too.
chain_call_variant(variant, chain, q, llm_out, answer) ==
    LET history == chain.memory
        rewrite == [kind |-> "rewrite", chat_history |-> history, question |-> q]
        generate == [kind |-> "answer", chat_history |-> history, question |-> q]
        first == IF history # << >> \/ variant = "always_rewrite"
                 THEN << rewrite >> ELSE << >>
        partial == IF variant = "partial"
                   THEN history \o << HumanMessage(q) >> ELSE history
    IN  IF history # << >> /\ llm_out = "fail_rewrite"
        THEN [raised |-> TRUE, chain |-> [chain EXCEPT !.memory = partial],
              llm_calls |-> first, retrievals |-> 0, chat_history |-> partial]
        ELSE IF llm_out # "ok"
        THEN [raised |-> TRUE, chain |-> [chain EXCEPT !.memory = partial],
              llm_calls |-> Append(first, generate),
              retrievals |-> 1, chat_history |-> partial]
        ELSE LET turn == << HumanMessage(q), AIMessage(answer) >>
                 saved == IF variant = "window" THEN turn
                          ELSE IF variant = "unsaved" THEN history
                          ELSE history \o turn
             IN  [raised |-> FALSE,
                  chain |-> [chain EXCEPT !.memory = saved],
                  llm_calls |-> Append(first, generate),
                  retrievals |-> 1,
                  chat_history |-> IF variant = "unsaved" THEN history \o turn
                                   ELSE saved]

chain_call_partial(chain, q, llm_out, answer) ==
    chain_call_variant("partial", chain, q, llm_out, answer)

chain_call_window(chain, q, llm_out, answer) ==
    chain_call_variant("window", chain, q, llm_out, answer)

chain_call_unsaved(chain, q, llm_out, answer) ==
    chain_call_variant("unsaved", chain, q, llm_out, answer)

chain_call_always_rewrite(chain, q, llm_out, answer) ==
    chain_call_variant("always_rewrite", chain, q, llm_out, answer)

\* ConversationalRetrievalChain.__call__ on {'question': q}: load the memory,
\* rewrite the question when the loaded history is non-empty, retrieve,
\* generate the answer, save the turn to the memory.  The history in the
\* response is the memory's own message list, so it shows the saved turn.
chain_call(chain, q, llm_out, answer) ==
    LET history == chain.memory
        rewrite == [kind |-> "rewrite", chat_history |-> history, question |-> q]
        generate == [kind |-> "answer", chat_history |-> history, question |-> q]
        first == IF history # << >> THEN << rewrite >> ELSE << >>
    IN  IF history # << >> /\ llm_out = "fail_rewrite"
        THEN [raised |-> TRUE, chain |-> chain, llm_calls |-> first,
              retrievals |-> 0, chat_history |-> history]
        ELSE IF llm_out # "ok"
        THEN [raised |-> TRUE, chain |-> chain,
              llm_calls |-> Append(first, generate),
              retrievals |-> 1, chat_history |-> history]
        ELSE LET saved == history \o << HumanMessage(q), AIMessage(answer) >>
             IN  [raised |-> FALSE,
                  chain |-> [chain EXCEPT !.memory = saved],
                  llm_calls |-> Append(first, generate),
                  retrievals |-> 1, chat_history |-> saved]

----------------------------------------------------------------------------
(* handle_question *)

\* render with the two templates exchanged.
render_swapped(messages) ==
    [i \in 1..Len(messages) |->
        [template |-> IF (i - 1) % 2 = 0 THEN "bot" ELSE "user",
         content |-> messages[i].content]]

render(messages) ==
    [i \in 1..Len(messages) |->
        [template |-> IF (i - 1) % 2 = 0 THEN "user" ELSE "bot",
         content |-> messages[i].content]]

handle_question(chain, history, q, llm_out, answer) ==
    LET response == chain_call(chain, q, llm_out, answer)
    IN  IF response.raised
        THEN [asked |-> "raised", error |-> "GenerationError",
              conversation |-> response.chain, chat_history |-> history,
              notices |-> << >>, rendered |-> << >>,
              llm_calls |-> response.llm_calls,
              retrievals |-> response.retrievals]
        ELSE [asked |-> "answered", error |-> "None",
              conversation |-> response.chain,
              chat_history |-> [messages |-> response.chat_history],
              notices |-> << >>,
              rendered |-> render(response.chat_history),
              llm_calls |-> response.llm_calls,
              retrievals |-> response.retrievals]

----------------------------------------------------------------------------
(* main *)

\* The question block without the test for an absent conversation: calling
\* None raises.
question_block_unguarded(conv, history, q, llm_out, answer) ==
    IF q = ""
    THEN [asked |-> "none", error |-> "None", conversation |-> conv,
          chat_history |-> history, notices |-> << >>, rendered |-> << >>,
          llm_calls |-> << >>, retrievals |-> 0]
    ELSE IF conv = None
    THEN [asked |-> "raised", error |-> "TypeError", conversation |-> conv,
          chat_history |-> history, notices |-> << >>,
          rendered |-> << >>, llm_calls |-> << >>, retrievals |-> 0]
    ELSE handle_question(conv, history, q, llm_out, answer)

\* The question block of main.
question_block(conv, history, q, llm_out, answer) ==
    IF q = ""
    THEN [asked |-> "none", error |-> "None", conversation |-> conv,
          chat_history |-> history, notices |-> << >>, rendered |-> << >>,
          llm_calls |-> << >>, retrievals |-> 0]
    ELSE IF conv = None
    THEN [asked |-> "warning", error |-> "None", conversation |-> conv,
          chat_history |-> history, notices |-> << WARN_PROCESS_FIRST >>,
          rendered |-> << >>, llm_calls |-> << >>, retrievals |-> 0]
    ELSE handle_question(conv, history, q, llm_out, answer)

\* The sidebar block without the test for an empty upload.
sidebar_unguarded(conv, d, b, embed_at) ==
    IF ~b
    THEN [conversation |-> conv, notices |-> << >>, invoked |-> << >>,
          error |-> "None"]
    ELSE
      LET pdf == get_pdf_text(d)
          chunks == get_chunks(pdf.text)
          store == get_vectorstore(chunks, embed_at)
      IN  IF pdf.raised
          THEN [conversation |-> conv, notices |-> << >>,
                invoked |-> << "get_pdf_text" >>, error |-> "ParseError"]
          ELSE IF store.raised # "None"
          THEN [conversation |-> conv, notices |-> << >>,
                invoked |-> << "get_pdf_text", "get_chunks", "get_vectorstore" >>,
                error |-> store.raised]
          ELSE [conversation |-> get_conversationchain(store.index),
                notices |-> << SUCCESS >>,
                invoked |-> << "get_pdf_text", "get_chunks", "get_vectorstore",
                               "get_conversationchain" >>,
                error |-> "None"]

\* The sidebar block of main.
sidebar(conv, d, b, embed_at) ==
    IF ~b
    THEN [conversation |-> conv, notices |-> << >>, invoked |-> << >>,
          error |-> "None"]
    ELSE IF d = << >>
    THEN [conversation |-> conv, notices |-> << WARN_NO_DOCS >>,
          invoked |-> << >>, error |-> "None"]
    ELSE
      LET pdf == get_pdf_text(d)
          chunks == get_chunks(pdf.text)
          store == get_vectorstore(chunks, embed_at)
      IN  IF pdf.raised
          THEN [conversation |-> conv, notices |-> << >>,
                invoked |-> << "get_pdf_text" >>, error |-> "ParseError"]
          ELSE IF store.raised # "None"
          THEN [conversation |-> conv, notices |-> << >>,
                invoked |-> << "get_pdf_text", "get_chunks", "get_vectorstore" >>,
                error |-> store.raised]
          ELSE [conversation |-> get_conversationchain(store.index),
                notices |-> << SUCCESS >>,
                invoked |-> << "get_pdf_text", "get_chunks", "get_vectorstore",
                               "get_conversationchain" >>,
                error |-> "None"]

\* One run of main with the widgets holding q and d and the button at b.  An
\* exception raised in the question block ends the run before the sidebar.
main(q, d, b, llm_out, answer, embed_at) ==
    LET ask == question_block(conversation, chat_history, q, llm_out, answer)
        side == IF ask.error # "None"
                THEN [conversation |-> ask.conversation, notices |-> << >>,
                      invoked |-> << >>, error |-> ask.error]
                ELSE sidebar(ask.conversation, d, b, embed_at)
        processed == side.notices = << SUCCESS >>
    IN  /\ ask.asked = "answered" =>
              Len(ask.conversation.memory) <= 2 * MaxTurns
        /\ question' = q
        /\ docs' = d
        /\ button' = b
        /\ conversation' = side.conversation
        /\ chat_history' = ask.chat_history
        /\ notices' = ask.notices \o side.notices
        /\ rendered' = ask.rendered
        /\ llm_calls' = ask.llm_calls
        /\ retrievals' = ask.retrievals
        /\ invoked' = side.invoked
        /\ error' = side.error
        /\ asked' = ask.asked
        /\ turns_since_process' =
              IF processed THEN << >>
              ELSE IF ask.asked = "answered"
              THEN Append(turns_since_process,
                          [question |-> q, answer |-> answer])
              ELSE turns_since_process
        /\ UNCHANGED chunkVars

\* What the collaborators can do in a run: the hosted model's outcome and
\* answer matter only when the chain is called, the rewrite call exists only
\* over a non-empty history, the embedder only runs for a click with files.
LlmChoices(q) ==
    IF q = "" \/ conversation = None THEN { << "ok", "a1" >> }
    ELSE { << "ok", a >> : a \in Answers } \cup { << "fail_answer", "a1" >> }
         \cup (IF conversation.memory # << >>
               THEN { << "fail_rewrite", "a1" >> } ELSE { })

EmbedChoices(d, b) == IF b /\ d # << >> THEN 0..1 ELSE { 0 }

\* The user enters a different text in the question input.
SubmitQuestion ==
    \E q \in (Questions \cup {""}) \ {question} :
        \E llm \in LlmChoices(q) :
            main(q, docs, FALSE, llm[1], llm[2], 0)

\* The user changes the uploaded files.
Upload ==
    \E d \in DocLists \ {docs} :
        \E llm \in LlmChoices(question) :
            main(question, d, FALSE, llm[1], llm[2], 0)

\* The user clicks Process.
ClickProcess ==
    \E llm \in LlmChoices(question), embed_at \in EmbedChoices(docs, TRUE) :
        main(question, docs, TRUE, llm[1], llm[2], embed_at)

Init ==
    /\ conversation = None
    /\ chat_history = None
    /\ question = ""
    /\ docs = << >>
    /\ button = FALSE
    /\ notices = << >>
    /\ rendered = << >>
    /\ llm_calls = << >>
    /\ retrievals = 0
    /\ invoked = << >>
    /\ error = "None"
    /\ asked = "none"
    /\ turns_since_process = << >>
    /\ raw_text = << >>
    /\ text_chunks = << >>
    /\ split_done = FALSE

Next == SubmitQuestion \/ Upload \/ ClickProcess

Spec == Init /\ [][Next]_vars

\* get_chunks on its own: called on any text, in a session not yet used.
ChunkInit ==
    /\ conversation = None
    /\ chat_history = None
    /\ question = ""
    /\ docs = << >>
    /\ button = FALSE
    /\ notices = << >>
    /\ rendered = << >>
    /\ llm_calls = << >>
    /\ retrievals = 0
    /\ invoked = << >>
    /\ error = "None"
    /\ asked = "none"
    /\ turns_since_process = << >>
    /\ raw_text \in Texts
    /\ text_chunks = << >>
    /\ split_done = FALSE

ChunkNext == Split

ChunkSpec == ChunkInit /\ [][ChunkNext]_vars

----------------------------------------------------------------------------
(* Properties *)

Has(seq, x) == \E i \in DOMAIN seq : seq[i] = x

Messages(history) == IF history = None THEN << >> ELSE history.messages

Kinds(calls) == [i \in DOMAIN calls |-> calls[i].kind]

Turn(q, a) == << HumanMessage(q), AIMessage(a) >>

\* The step keeps the stored index: an absent conversation stays absent, a
\* stored one keeps its index and loses no turn of its memory, and without an
\* answered question it is the very same conversation.
KeepsIndex ==
    /\ conversation = None => conversation' = None
    /\ conversation # None =>
          /\ conversation' # None
          /\ conversation'.index = conversation.index
          /\ IsPrefix(conversation.memory, conversation'.memory)
    /\ asked' # "answered" => conversation' = conversation

\* C1: a run with a non-empty question while no conversation is stored shows
\* the "process first" warning, calls neither the retriever nor the hosted
\* model, renders nothing and leaves the stored chat history as it was.
C1_AskBeforeProcess ==
    [][ (question' # "" /\ conversation = None) =>
            /\ asked' = "warning"
            /\ Has(notices', WARN_PROCESS_FIRST)
            /\ llm_calls' = << >>
            /\ retrievals' = 0
            /\ rendered' = << >>
            /\ chat_history' = chat_history ]_vars

C1_Witness ==
    /\ question # ""
    /\ conversation = None
    /\ asked = "warning"
    /\ Has(notices, WARN_PROCESS_FIRST)

C3_ProcessAllOrNothing ==
    [][ (button' /\ docs' # << >>) =>
            LET pdf == get_pdf_text(docs')
                chunks == get_chunks(pdf.text)
            IN  \/ /\ Has(notices', SUCCESS)
                   /\ error' = "None"
                   /\ ~pdf.raised
                   /\ chunks # << >>
                   /\ Len(conversation'.index) = Len(chunks)
                   /\ conversation'.index = chunks
                   /\ conversation'.memory = << >>
                \/ /\ ~Has(notices', SUCCESS)
                   /\ error' \in { "ParseError", "EmptyCorpusError",
                                   "EmbeddingError", "GenerationError" }
                   /\ KeepsIndex ]_vars

C3_Witness ==
    /\ button
    /\ docs # << >>
    /\ error = "EmbeddingError"
    /\ conversation # None
    /\ Len(conversation.index) = 3

C6_SecondAskSeesFirstTurn ==
    [][ (asked' = "answered" /\ Len(turns_since_process) = 1) =>
            /\ llm_calls' # << >>
            /\ llm_calls'[1].kind = "rewrite"
            /\ llm_calls'[1].question = question'
            /\ llm_calls'[1].chat_history # << >>
            /\ llm_calls'[1].chat_history =
                  Turn(turns_since_process[1].question,
                       turns_since_process[1].answer) ]_vars

C6_Witness ==
    /\ asked = "answered"
    /\ Len(turns_since_process) = 2
    /\ llm_calls # << >>
    /\ llm_calls[1].kind = "rewrite"
    /\ llm_calls[1].chat_history =
          Turn(turns_since_process[1].question, turns_since_process[1].answer)
    /\ turns_since_process[1].question # turns_since_process[2].question

\* C7 as claimed: every successful ask calls the hosted model exactly twice,
\* rewrite then answer.
C7_Claimed ==
    asked = "answered" => Kinds(llm_calls) = << "rewrite", "answer" >>

\* C7 amended: a successful ask over a non-empty history calls the hosted
\* model exactly twice, rewrite then answer; over an empty history (the
\* first ask on a conversation) it calls it exactly once, for the answer.
C7_RewriteOnlyWithHistory ==
    [][ asked' = "answered" =>
            /\ retrievals' = 1
            /\ Kinds(llm_calls') =
                  IF conversation.memory = << >>
                  THEN << "answer" >>
                  ELSE << "rewrite", "answer" >> ]_vars

C7_Witness ==
    /\ asked = "answered"
    /\ Kinds(llm_calls) = << "answer" >>
    /\ Len(chat_history.messages) = 2

\* C8: after every successful ask the stored chat history has two messages
\* per turn answered by the chain, the i-th question at 2i-1 and the i-th
\* answer at 2i (counting from one), and the page shows all of it in that
\* order, questions in the user template and answers in the bot template.
C8_AlternatingRender ==
    [][ asked' = "answered" =>
            LET h == chat_history'.messages
                n == Len(turns_since_process) + 1
            IN  /\ Len(h) = 2 * n
                /\ \A i \in 1..(n - 1) :
                      /\ h[2 * i - 1] = HumanMessage(turns_since_process[i].question)
                      /\ h[2 * i] = AIMessage(turns_since_process[i].answer)
                /\ h[2 * n - 1] = HumanMessage(question')
                /\ h[2 * n].type = "ai"
                /\ h[2 * n].content \in Answers
                /\ Len(rendered') = Len(h)
                /\ \A k \in 1..Len(h) :
                      rendered'[k] =
                          [template |-> IF h[k].type = "human"
                                        THEN "user" ELSE "bot",
                           content |-> h[k].content] ]_vars

C8_Witness ==
    /\ asked = "answered"
    /\ Len(rendered) = 4
    /\ rendered[3].template = "user"
    /\ rendered[4].template = "bot"
    /\ rendered[1].content # rendered[3].content

Segments(text) == split_text_with_regex(text)

\* C9: every chunk get_chunks returns is at most chunk_size characters long,
\* unless it is one separator-delimited segment of the text that is itself
\* longer than chunk_size.
C9_ChunkSizeBound ==
    split_done =>
        \A i \in DOMAIN text_chunks :
            \/ len(text_chunks[i]) <= chunk_size
            \/ \E j \in DOMAIN Segments(raw_text) :
                  /\ len(Segments(raw_text)[j]) > chunk_size
                  /\ text_chunks[i] = strip(Segments(raw_text)[j])

C9_Witness ==
    /\ split_done
    /\ Len(text_chunks) >= 2
    /\ \E i \in DOMAIN text_chunks : len(text_chunks[i]) > chunk_size
    /\ \E i \in DOMAIN text_chunks :
          /\ len(text_chunks[i]) <= chunk_size
          /\ len(text_chunks[i]) > 900

\* C10 as claimed: a click on Process leaves the stored chat history and the
\* chain's memory as they were and calls neither the retriever nor the
\* hosted model.
C10_Claimed ==
    [][ button' =>
            /\ chat_history' = chat_history
            /\ (conversation # None /\ ~Has(notices', SUCCESS)) =>
                  conversation' = conversation
            /\ llm_calls' = << >>
            /\ retrievals' = 0 ]_vars

====
